---- MODULE Spec2Model ----
(***************************************************************************)
(* Model of the statistical drift detector of SentiBR                      *)
(* (src/api/monitoring/drift_detector.py, class DriftDetector).            *)
(*                                                                         *)
(* Scalars of a DataFrame cell are encoded as integers: the numbers        *)
(* themselves, and codes above 100 for category labels (strings that       *)
(* float() rejects).  Real numbers are exact fractions <<num, den>> in     *)
(* lowest terms; <<1, 0>> is +inf and <<0, 0>> is NaN, the two non-finite  *)
(* floats numpy produces on a division by zero.                            *)
(***************************************************************************)
EXTENDS Integers, Sequences, FiniteSets, Bags, TLC

\* ------------------------------------------------------------------ bounds
\* largest number of cells (rows x columns) of a DataFrame given to the
\* detector in the specification of detect_drift
MaxCells == 2
\* the same for the specification of the baseline life cycle
LifeCells == 1
\* longest explicit features list given to detect_drift
MaxList == 2
MaxSaves == 2
MaxCalls == 2
MaxPeriod == 2
MaxTime == 3
MaxRequests == 3
MaxOver == 2
MaxLead == 1
MaxApiRequests == 4
MaxRetries == 3

\* ------------------------------------------------------- program constants
\* head(10) of the value counts kept in 'top_values'
TopValues == 10
\* largest stored numeric sample
SampleCap == 10000

\* ------------------------------------------------------------- the scalars
\* numbers are themselves, 101.. are category labels, 200 + n is the string
\* that JSON writes for the number n when it is the key of an object
Numbers == {1, 2}
Labels == {101}
Features == {"text_length", "language"}
\* the column order of a DataFrame / the key order of a dict
FeatureOrder == <<"text_length", "language">>
\* the only file the model follows, and the absent baseline_path (None)
Paths == {"baseline.json"}
NoPath == "None"

IsNumber(v) == v < 100
NumStr(n) == 200 + n
\* float(v) succeeds
Floatable(v) == IsNumber(v) \/ v >= 200

\* --------------------------------------------------------------- fractions
Abs(x) == IF x < 0 THEN -x ELSE x

RECURSIVE GCD(_, _)
GCD(a, b) == IF b = 0 THEN a ELSE GCD(b, a % b)

Inf == <<1, 0>>
NaN == <<0, 0>>
Zero == <<0, 1>>
One == <<1, 1>>

\* the float with value n / d
Frac(n, d) ==
    IF d = 0
    THEN (IF n > 0 THEN <<1, 0>> ELSE IF n < 0 THEN <<-1, 0>> ELSE <<0, 0>>)
    ELSE LET g == GCD(Abs(n), Abs(d))
             s == IF d < 0 THEN -1 ELSE 1
         IN  <<(s * n) \div g, (s * d) \div g>>

IsNaN(a) == a[1] = 0 /\ a[2] = 0
IsFinite(a) == a[2] # 0

RAdd(a, b) ==
    IF IsNaN(a) \/ IsNaN(b) THEN NaN
    ELSE IF a[2] = 0 /\ b[2] = 0 THEN (IF a[1] = b[1] THEN a ELSE NaN)
    ELSE IF a[2] = 0 THEN a
    ELSE IF b[2] = 0 THEN b
    ELSE Frac(a[1] * b[2] + b[1] * a[2], a[2] * b[2])

RNeg(a) == <<-a[1], a[2]>>
RSub(a, b) == RAdd(a, RNeg(b))

\* a / b for b >= 0 (numpy: x / 0 is +-inf, 0 / 0 is nan)
RDiv(a, b) ==
    IF IsNaN(a) \/ IsNaN(b) THEN NaN
    ELSE IF a[2] = 0 /\ b[2] = 0 THEN NaN
    ELSE IF a[2] = 0 THEN (IF b[1] < 0 THEN RNeg(a) ELSE a)
    ELSE IF b[2] = 0 THEN Zero
    ELSE Frac(a[1] * b[2], a[2] * b[1])

\* a < b of IEEE floats: false as soon as one side is NaN
RLess(a, b) ==
    IF IsNaN(a) \/ IsNaN(b) THEN FALSE
    ELSE IF a[2] = 0 /\ b[2] = 0 THEN a[1] < b[1]
    ELSE IF a[2] = 0 THEN a[1] < 0
    ELSE IF b[2] = 0 THEN b[1] > 0
    ELSE a[1] * b[2] < b[1] * a[2]

\* a >= b of IEEE floats
RGeq(a, b) == (~IsNaN(a)) /\ (~IsNaN(b)) /\ ~RLess(a, b)

\* Python's min(a, b): b only when b < a
PyMin(a, b) == IF RLess(b, a) THEN b ELSE a

RECURSIVE SumSeq(_)
SumSeq(s) == IF s = <<>> THEN 0 ELSE Head(s) + SumSeq(Tail(s))

RECURSIVE RSumSeq(_)
RSumSeq(s) == IF s = <<>> THEN Zero ELSE RAdd(Head(s), RSumSeq(Tail(s)))

RECURSIVE SetToSeq(_)
SetToSeq(S) ==
    IF S = {} THEN <<>>
    ELSE LET x == CHOOSE y \in S : \A z \in S : y <= z
         IN  <<x>> \o SetToSeq(S \ {x})

Range(s) == {s[i] : i \in DOMAIN s}
Count(s, v) == Cardinality({i \in DOMAIN s : s[i] = v})

\* -------------------------------------------------------------- DataFrames
\* A column is its dtype (what pd.api.types.is_numeric_dtype sees) and its
\* values; a DataFrame is its columns, all of the same length 'rows'.
\* The value sequences that are enumerated are the non-decreasing ones:
\* every statistic below depends on the values of a column only through
\* their multiset.
SortedSeqs(S, n) ==
    {s \in [1..n -> S] : \A i \in 1..n : \A j \in i..n : s[i] <= s[j]}

\* numeric columns hold values of nums, object columns values of objs
Columns(n, nums, objs) ==
    {[dtype |-> "numeric", values |-> s] : s \in SortedSeqs(nums, n)}
    \cup {[dtype |-> "object", values |-> s] : s \in SortedSeqs(objs, n)}

Frames(cells, nums, objs) ==
    UNION {UNION {{[columns |-> c, rows |-> n] : c \in [C -> Columns(n, nums, objs)]}
                  : n \in {m \in 0..cells : m * Cardinality(C) <= cells
                                            /\ (C = {} => m = 0)}}
           : C \in SUBSET Features}

\* the key order of a dict whose keys are inserted in column order
KeysInOrder(d) == SelectSeq(FeatureOrder, LAMBDA f : f \in DOMAIN d)

\* ------------------------------------------------- _compute_statistics
Mean(vals) == Frac(SumSeq(vals), Len(vals))

\* pandas Series.std(), ddof = 1, recorded by its square (the variance):
\* (n * sum x^2 - (sum x)^2) / (n * (n - 1)); NaN for fewer than 2 values
SampleVar(vals) ==
    LET n == Len(vals)
        sq == [i \in DOMAIN vals |-> vals[i] * vals[i]]
    IN  IF n < 2 THEN NaN
        ELSE Frac(n * SumSeq(sq) - SumSeq(vals) * SumSeq(vals), n * (n - 1))

\* numpy np.std(), ddof = 0, recorded by its square
PopVar(vals) ==
    LET n == Len(vals)
        sq == [i \in DOMAIN vals |-> vals[i] * vals[i]]
    IN  Frac(n * SumSeq(sq) - SumSeq(vals) * SumSeq(vals), n * n)

\* pandas Series.quantile(a / b): linear interpolation at position (n-1)*a/b
Quantile(vals, a, b) ==
    LET n == Len(vals)
        srt == SortSeq(vals, LAMBDA x, y : x < y)
        lo == ((n - 1) * a) \div b
        rem == ((n - 1) * a) % b
    IN  IF n = 0 THEN NaN
        ELSE IF rem = 0 THEN Frac(srt[lo + 1], 1)
        ELSE Frac(srt[lo + 1] * b + rem * (srt[lo + 2] - srt[lo + 1]), b)

MinOf(vals) == IF vals = <<>> THEN NaN
               ELSE Frac(CHOOSE x \in Range(vals) : \A y \in Range(vals) : x <= y, 1)
MaxOf(vals) == IF vals = <<>> THEN NaN
               ELSE Frac(CHOOSE x \in Range(vals) : \A y \in Range(vals) : x >= y, 1)

FirstSeen(vals, v) == CHOOSE i \in DOMAIN vals : vals[i] = v /\ \A j \in 1..(i - 1) : vals[j] # v

\* value_counts(): count of every distinct value
value_counts(vals) == [v \in Range(vals) |-> Count(vals, v)]

\* value_counts().head(k): the k most frequent values, ties in first-seen order
head(vals, k) ==
    LET vc == value_counts(vals)
        before(v) == {w \in DOMAIN vc : vc[w] > vc[v]
                        \/ (vc[w] = vc[v] /\ FirstSeen(vals, w) < FirstSeen(vals, v))}
        kept == {v \in DOMAIN vc : Cardinality(before(v)) < k}
    IN  [v \in kept |-> vc[v]]

ColumnStatistics(col) ==
    IF col.dtype = "numeric"
    THEN [type |-> "numeric",
          mean |-> Mean(col.values),
          std |-> SampleVar(col.values),
          min |-> MinOf(col.values),
          max |-> MaxOf(col.values),
          median |-> Quantile(col.values, 1, 2),
          q25 |-> Quantile(col.values, 1, 4),
          q75 |-> Quantile(col.values, 3, 4)]
    ELSE [type |-> "categorical",
          n_unique |-> Cardinality(Range(col.values)),
          top_values |-> head(col.values, TopValues)]

compute_statistics(data) ==
    [col \in DOMAIN data.columns |-> ColumnStatistics(data.columns[col])]

\* ------------------------------------------------ _compute_distribution
\* np.random.choice(values, SampleCap, replace=False): any SampleCap values
\* at distinct positions, in any order
Samples(vals) ==
    IF Len(vals) > SampleCap
    THEN {[i \in 1..SampleCap |-> vals[idx[i]]] :
            idx \in {ix \in [1..SampleCap -> DOMAIN vals] :
                       \A i, j \in 1..SampleCap : i # j => ix[i] # ix[j]}}
    ELSE {vals}

ColumnDistributions(col) ==
    IF col.dtype = "numeric" THEN Samples(col.values) ELSE {col.values}

\* the set of results _compute_distribution can return
compute_distribution(data) ==
    {d \in [DOMAIN data.columns -> UNION {ColumnDistributions(data.columns[c])
                                            : c \in DOMAIN data.columns}] :
        \A c \in DOMAIN data.columns : d[c] \in ColumnDistributions(data.columns[c])}

\* ------------------------------------------------------- statistical tests
\* Outcome of a call: the exception it raises ("none" when it returns) and
\* the value it returns.
Returns(v) == [raised |-> "none", value |-> v]
Raises(e) == [raised |-> e, value |-> [test |-> "aborted"]]

\* _is_numeric: values.astype(float) succeeds
is_numeric(col) ==
    col.dtype = "numeric" \/ \A i \in DOMAIN col.values : Floatable(col.values[i])

\* mutant: the baseline's distribution function counts the values below x only
ks_statistic_below(current, baseline) ==
    LET n1 == Len(current)
        n2 == Len(baseline)
        le(s, x) == Cardinality({i \in DOMAIN s : s[i] <= x})
        lt(s, x) == Cardinality({i \in DOMAIN s : s[i] < x})
        diff(x) == Abs(le(current, x) * n2 - lt(baseline, x) * n1)
        pts == Range(current) \cup Range(baseline)
        top == CHOOSE x \in pts : \A y \in pts : diff(x) >= diff(y)
    IN  Frac(diff(top), n1 * n2)

\* the two-sample Kolmogorov-Smirnov statistic: the largest distance of the
\* two empirical distribution functions
ks_statistic(current, baseline) ==
    LET n1 == Len(current)
        n2 == Len(baseline)
        le(s, x) == Cardinality({i \in DOMAIN s : s[i] <= x})
        diff(x) == Abs(le(current, x) * n2 - le(baseline, x) * n1)
        pts == Range(current) \cup Range(baseline)
        top == CHOOSE x \in pts : \A y \in pts : diff(x) >= diff(y)
    IN  Frac(diff(top), n1 * n2)

\* _test_numeric_drift.  stats.ks_2samp rejects an empty sample
\* (ValueError); np.mean(baseline) rejects a list that holds a string
\* (TypeError).
test_numeric_drift(current, baseline) ==
    IF Len(current) = 0 THEN Raises("ValueError")
    ELSE IF \E i \in DOMAIN baseline : ~IsNumber(baseline[i]) THEN Raises("TypeError")
    ELSE LET ks_stat == ks_statistic(current, baseline)
         IN  Returns([test |-> "kolmogorov_smirnov",
                      drift_score |-> ks_stat,
                      ks_statistic |-> ks_stat,
                      mean_shift |-> RSub(Mean(current), Mean(baseline)),
                      std_shift |-> <<PopVar(current), PopVar(baseline)>>])

\* stats.chisquare(f_obs, f_exp) over the categories: sum (o - e)^2 / e,
\* +inf as soon as an expected frequency is 0
chi2_statistic(cats, obs, exp) ==
    LET order == SetToSeq(cats)
        terms == [i \in DOMAIN order |->
                    Frac((obs[order[i]] - exp[order[i]]) * (obs[order[i]] - exp[order[i]]),
                         exp[order[i]])]
    IN  RSumSeq(terms)

\* mutant: the score is not clamped
drift_score_unclamped(chi2_stat, total) == RDiv(chi2_stat, Frac(total, 1))

\* the normalised score: min(chi2_stat / total, 1.0)
drift_score_of(chi2_stat, total) == PyMin(RDiv(chi2_stat, Frac(total, 1)), One)

\* _test_categorical_drift.  sum_check: the installed stats.chisquare
\* raises ValueError when the two frequency vectors have different sums.
test_categorical_drift(current, baseline, sum_check) ==
    LET current_counts == value_counts(current)
        baseline_counts == value_counts(baseline)
        all_categories == DOMAIN current_counts \cup DOMAIN baseline_counts
        current_freq == [cat \in all_categories |->
                           IF cat \in DOMAIN current_counts THEN current_counts[cat] ELSE 0]
        baseline_freq == [cat \in all_categories |->
                           IF cat \in DOMAIN baseline_counts THEN baseline_counts[cat] ELSE 0]
        chi2_stat == chi2_statistic(all_categories, current_freq, baseline_freq)
        total == Len(current) + Len(baseline)
    IN  IF sum_check /\ Len(current) # Len(baseline) THEN Raises("ValueError")
        ELSE Returns([test |-> "chi_square",
                      drift_score |-> drift_score_of(chi2_stat, total),
                      chi2_statistic |-> chi2_stat,
                      categories |-> Cardinality(all_categories)])

NoTest == [drift_score |-> Zero, test |-> "none", p_value |-> One, statistic |-> Zero]

\* mutant: the test is run whether or not the baseline has a sample
test_feature_drift_always(current_col, feature, distribution, sum_check) ==
    LET baseline_values == IF feature \in DOMAIN distribution
                           THEN distribution[feature] ELSE <<>>
    IN  IF is_numeric(current_col)
        THEN test_numeric_drift(current_col.values, baseline_values)
        ELSE test_categorical_drift(current_col.values, baseline_values, sum_check)

\* _test_feature_drift
test_feature_drift(current_col, feature, distribution, sum_check) ==
    LET baseline_values == IF feature \in DOMAIN distribution
                           THEN distribution[feature] ELSE <<>>
    IN  IF baseline_values = <<>> THEN Returns(NoTest)
        ELSE IF is_numeric(current_col)
        THEN test_numeric_drift(current_col.values, baseline_values)
        ELSE test_categorical_drift(current_col.values, baseline_values, sum_check)

\* ------------------------------------------------------------ detect_drift
\* mutants: a strict comparison; a warning that does not set drift_detected
Severity_strict(score, warning, critical) ==
    IF RLess(critical, score) THEN [drift_detected |-> TRUE, severity |-> "critical"]
    ELSE IF RLess(warning, score) THEN [drift_detected |-> TRUE, severity |-> "warning"]
    ELSE [drift_detected |-> FALSE, severity |-> "normal"]

Severity_quiet(score, warning, critical) ==
    IF RGeq(score, critical) THEN [drift_detected |-> TRUE, severity |-> "critical"]
    ELSE IF RGeq(score, warning) THEN [drift_detected |-> FALSE, severity |-> "warning"]
    ELSE [drift_detected |-> FALSE, severity |-> "normal"]

\* mutant: the warning threshold is tested first
Severity_warning_first(score, warning, critical) ==
    IF RGeq(score, warning) THEN [drift_detected |-> TRUE, severity |-> "warning"]
    ELSE IF RGeq(score, critical) THEN [drift_detected |-> TRUE, severity |-> "critical"]
    ELSE [drift_detected |-> FALSE, severity |-> "normal"]

\* the severity branch at the end of detect_drift
Severity(score, warning, critical) ==
    IF RGeq(score, critical) THEN [drift_detected |-> TRUE, severity |-> "critical"]
    ELSE IF RGeq(score, warning) THEN [drift_detected |-> TRUE, severity |-> "warning"]
    ELSE [drift_detected |-> FALSE, severity |-> "normal"]

\* the features argument: None, or a list of names
NoFeatures == [given |-> FALSE, list |-> <<>>]
SomeFeatures(l) == [given |-> TRUE, list |-> l]

\* the names the loop goes through
Requested(stats, features) ==
    IF features.given THEN features.list ELSE KeysInOrder(stats)

\* mutant: a feature that is not a column counts as an untested feature
Visit_zero(data, feature, distribution, sum_check) ==
    IF feature \notin DOMAIN data.columns
    THEN <<[feature |-> feature, out |-> Returns(NoTest)]>>
    ELSE <<[feature |-> feature,
            out |-> test_feature_drift(data.columns[feature], feature,
                                       distribution, sum_check)]>>

\* one turn of the loop: nothing for a feature that is not a column of the
\* current data, else the outcome of its test
Visit(data, feature, distribution, sum_check) ==
    IF feature \notin DOMAIN data.columns THEN <<>>
    ELSE <<[feature |-> feature,
            out |-> test_feature_drift(data.columns[feature], feature,
                                       distribution, sum_check)]>>

RECURSIVE Visits(_, _, _, _)
Visits(data, list, distribution, sum_check) ==
    IF list = <<>> THEN <<>>
    ELSE Visit(data, Head(list), distribution, sum_check)
         \o Visits(data, Tail(list), distribution, sum_check)

\* np.mean of a non-empty list of scores
np_mean(scores) == RDiv(RSumSeq(scores), Frac(Len(scores), 1))

ErrorResult == [kind |-> "error"]

\* mutant: detect_drift goes on without a baseline
no_baseline_ignored(stats) == FALSE

\* 'if not self.baseline_stats'
no_baseline(stats) == DOMAIN stats = {}

\* detect_drift after its loop went through the turns of 'all': the
\* exception of the first failed turn, or the dict built from the turns
detect_outcome(all, warning, critical, data) ==
    LET failed == {i \in DOMAIN all : all[i].out.raised # "none"}
        first == CHOOSE i \in failed : \A j \in failed : i <= j
        done == IF failed = {} THEN all ELSE SubSeq(all, 1, first)
        tested == SelectSeq(done, LAMBDA v : v.out.raised # "none"
                                             \/ v.out.value.test # "none")
        ran == [i \in DOMAIN tested |-> tested[i].feature]
        drift_scores == [i \in DOMAIN all |-> all[i].out.value.drift_score]
        overall == IF drift_scores # <<>> THEN np_mean(drift_scores) ELSE Zero
        sev == Severity(overall, warning, critical)
        last(f) == CHOOSE i \in DOMAIN all :
                       all[i].feature = f /\ \A j \in DOMAIN all : all[j].feature = f => j <= i
    IN  IF failed # {}
        THEN [raised |-> all[first].out.raised, value |-> [kind |-> "aborted"], ran |-> ran]
        ELSE [raised |-> "none",
              value |-> [kind |-> "result",
                         n_samples |-> data.rows,
                         features |-> [f \in {all[i].feature : i \in DOMAIN all} |->
                                          all[last(f)].out.value],
                         overall_drift_score |-> overall,
                         drift_detected |-> sev.drift_detected,
                         severity |-> sev.severity],
              ran |-> ran]

\* the keys of the dict detect_drift returns
result_keys(value) ==
    IF value.kind = "error" THEN {"error"}
    ELSE {"timestamp", "n_samples", "features", "overall_drift_score",
          "drift_detected", "severity"}

\* the keys get_drift_report reads with drift_results[...]
ReportKeys == {"timestamp", "n_samples", "overall_drift_score", "severity",
               "drift_detected"}

\* get_drift_report: the exception it raises, "none" when it returns the text
get_drift_report(drift_results) ==
    IF ReportKeys \subseteq result_keys(drift_results) THEN "none" ELSE "KeyError"

\* detect_drift: the exception or the returned dict, and 'ran', the
\* features a scipy test was called for, in call order
detect_drift(stats, distribution, warning, critical, data, features, sum_check) ==
    IF no_baseline(stats)
    THEN [raised |-> "none", value |-> ErrorResult, ran |-> <<>>]
    ELSE detect_outcome(Visits(data, Requested(stats, features), distribution,
                               sum_check),
                        warning, critical, data)

\* ------------------------------------------------------- the baseline file
\* json.dump turns the keys of an object into strings; numbers and strings
\* inside lists keep their type
json_key(v) == IF IsNumber(v) THEN NumStr(v) ELSE v

json_stats(stats) ==
    [f \in DOMAIN stats |->
        IF stats[f].type = "categorical"
        THEN [stats[f] EXCEPT !.top_values =
                 [k \in {json_key(v) : v \in DOMAIN stats[f].top_values} |->
                     stats[f].top_values[CHOOSE v \in DOMAIN stats[f].top_values :
                                            json_key(v) = k]]]
        ELSE stats[f]]

\* what json.load reads back from what save_baseline dumps (the timestamp,
\* a clock reading, is left out)
Document(n_samples, stats, distribution) ==
    [n_samples |-> n_samples, stats |-> json_stats(stats), distribution |-> distribution]

Without(doc, key) == [k \in DOMAIN doc \ {key} |-> doc[k]]

\* A file is absent, is not JSON ("garbage"), is JSON but not an object
\* ("array"), or is a JSON object
Absent == [kind |-> "absent", data |-> <<>>]
Garbage == [kind |-> "garbage", data |-> <<>>]
Array == [kind |-> "array", data |-> <<>>]
Object(doc) == [kind |-> "object", data |-> doc]

\* the files the environment can put at a path: the snapshots of the
\* DataFrames of a set, whole or with a key dropped
Snapshots(frames) ==
    UNION {{Document(data.rows, compute_statistics(data), d)
              : d \in compute_distribution(data)} : data \in frames}

FileStates(frames) ==
    {Absent, Garbage, Array}
    \cup {Object(doc) : doc \in Snapshots(frames)}
    \cup {Object(Without(doc, "stats")) : doc \in Snapshots(frames)}
    \cup {Object(Without(doc, "distribution")) : doc \in Snapshots(frames)}

\* ------------------------------------------------------------------- state
VARIABLES
    baseline_path,          \* self.baseline_path, NoPath for None
    warning_threshold,      \* self.warning_threshold
    critical_threshold,     \* self.critical_threshold
    baseline_stats,         \* self.baseline_stats
    baseline_distribution,  \* self.baseline_distribution
    files,                  \* the file system: path -> file
    scipy_sum_check,        \* the installed stats.chisquare checks the sums
    call,                   \* the caller: idle, or the call that just ended
    established,            \* history: a load or a save has set the baseline
    threads,                \* the threads inside save_baseline and detect_drift
    limiter,                \* the RateLimitMiddleware: calls, period, clients
    traffic,                \* its clock, the requests inside call_next, history
    metrics_collector,      \* the MetricsCollector singleton
    api,                    \* history: the requests and calls the collector saw
    judge                   \* the last LLMJudge.evaluate_single_prediction call

vars == <<baseline_path, warning_threshold, critical_threshold, baseline_stats,
          baseline_distribution, files, scipy_sum_check, call, established,
          threads, limiter, traffic, metrics_collector, api, judge>>

\* what the detector's methods leave alone
Limiter == <<limiter, traffic>>
Metrics == <<metrics_collector, api>>
Service == <<Limiter, Metrics, judge>>

\* the default thresholds (0.15, 0.25)
DefaultThresholds == <<Frac(15, 100), Frac(25, 100)>>
\* the default thresholds, a pair that floats represent exactly, and an
\* inverted pair (the constructor accepts any two floats)
ThresholdConfigs == {DefaultThresholds,
                     <<Frac(1, 4), Frac(1, 2)>>,
                     <<Frac(1, 2), Frac(1, 4)>>}

EmptyFrame == [columns |-> <<>>, rows |-> 0]

Baseline == [stats |-> baseline_stats, distribution |-> baseline_distribution,
             path |-> baseline_path]

Idle == [op |-> "idle", raised |-> "none", caught |-> "none",
         result |-> [kind |-> "none"], ran |-> <<>>, data |-> EmptyFrame,
         features |-> NoFeatures, path |-> NoPath,
         before |-> [stats |-> <<>>, distribution |-> <<>>, path |-> NoPath]]

\* ------------------------------------------------------ RateLimitMiddleware
\* request.client.host, or no client at all
IPs == {"10.0.0.1"}
NoClient == "None"
Hosts == IPs \cup {NoClient}

\* mutant: every request is counted under one key
client_ip_any(host) == "unknown"

\* 'request.client.host if request.client else "unknown"'
client_ip(host) == IF host = NoClient THEN "unknown" ELSE host

Keys == {client_ip(h) : h \in Hosts}

\* mutant: the timestamps of exactly one period ago are kept
cleaned_inclusive(timestamps, now, period) ==
    SelectSeq(timestamps, LAMBDA timestamp : now - timestamp <= period)

\* 'Clean old requests': the timestamps younger than the period
cleaned(timestamps, now, period) ==
    SelectSeq(timestamps, LAMBDA timestamp : now - timestamp < period)

\* mutant: one request more than calls gets through
limit_exceeded_late(timestamps, calls) == Len(timestamps) > calls

\* 'if len(self.clients[client_ip]) >= self.calls'
limit_exceeded(timestamps, calls) == Len(timestamps) >= calls

\* the last thing the middleware did
NoEvent == [kind |-> "none", host |-> NoClient, now |-> 0, before |-> <<>>,
            status |-> 0, retry_after |-> -1, passed |-> FALSE,
            limit |-> -1, remaining |-> -1, reset |-> -1]

\* RateLimitMiddleware(app, calls, period): no client has a timestamp
NewLimiter(calls, period) ==
    [calls |-> calls, period |-> period, clients |-> [k \in Keys |-> <<>>]]

\* nothing has arrived: the clock at 0, no request inside call_next, no
\* request admitted or rejected
NoTraffic ==
    [clock |-> 0, pending |-> EmptyBag, requests |-> 0,
     admitted |-> [h \in Hosts |-> <<>>], rejections |-> [h \in Hosts |-> 0],
     last |-> NoEvent]

\* ---------------------------------------------------------- MetricsCollector
KeepLast == 1000
Sentiments == {"negative", "neutral", "positive"}
SentimentOrder == <<"negative", "neutral", "positive">>
ErrorTypes == {"RuntimeError", "HTTP_500", "HTTP_503", "ValidationError"}

\* _initialize
NewCollector ==
    [total_requests |-> 0, successful_requests |-> 0, failed_requests |-> 0,
     predictions_by_sentiment |-> [x \in Sentiments |-> 0],
     total_processing_time |-> 0, request_latencies |-> <<>>,
     error_counters |-> [e \in ErrorTypes |-> 0], confidence_scores |-> <<>>]

\* mutant: the first KeepLast entries are kept
keep_last_first(list) ==
    IF Len(list) > KeepLast THEN SubSeq(list, 1, KeepLast) ELSE list

\* 'if len(l) > 1000: l = l[-1000:]'
keep_last(list) ==
    IF Len(list) > KeepLast THEN SubSeq(list, Len(list) - KeepLast + 1, Len(list))
    ELSE list

record_request(m) == [m EXCEPT !.total_requests = @ + 1]

record_success(m, latency_ms) ==
    [m EXCEPT !.successful_requests = @ + 1,
              !.total_processing_time = @ + latency_ms,
              !.request_latencies = keep_last(Append(@, latency_ms))]

record_failure(m, error_type) ==
    [m EXCEPT !.failed_requests = @ + 1, !.error_counters[error_type] = @ + 1]

record_prediction(m, sentiment, confidence) ==
    [m EXCEPT !.predictions_by_sentiment[sentiment] = @ + 1,
              !.confidence_scores = keep_last(Append(@, confidence))]

\* the error_rate of get_metrics, before rounding
error_rate(m) ==
    IF m.total_requests > 0 THEN Frac(m.failed_requests, m.total_requests) ELSE Zero

\* no request has reached the API
NoRequests == [requests |-> 0, failed |-> 0, successes |-> 0, predictions |-> 0]

\* ------------------------------------------------------------------ LLMJudge
\* what one chat.completions.create call ends in: a JSON object with the
\* five required fields, one that lacks a field, text that is not JSON, or
\* an exception of the client
Replies == {"complete", "incomplete", "not_json", "api_error"}

\* the loop of evaluate_single_prediction from an attempt on: what it
\* returns and the number of API calls made
RECURSIVE attempts_from(_, _, _)
attempts_from(attempt, retry_attempts, replies) ==
    IF attempt >= retry_attempts THEN [returned |-> "None", api_calls |-> attempt]
    ELSE IF replies[attempt + 1] = "complete"
    THEN [returned |-> "result", api_calls |-> attempt + 1]
    ELSE IF attempt < retry_attempts - 1
    THEN attempts_from(attempt + 1, retry_attempts, replies)
    ELSE [returned |-> "error_dict", api_calls |-> attempt + 1]

evaluate_single_prediction(retry_attempts, replies) ==
    attempts_from(0, retry_attempts, replies)

NoEvaluation == [op |-> "idle", retry_attempts |-> 0, replies |-> <<>>,
                 returned |-> "nothing", api_calls |-> 0]

ServiceAtRest ==
    /\ limiter = NewLimiter(0, 0)
    /\ traffic = NoTraffic
    /\ metrics_collector = NewCollector
    /\ api = NoRequests
    /\ judge = NoEvaluation

\* no thread is inside a method of the detector
NoThreads ==
    [save |-> [pc |-> "idle", stats |-> <<>>, distribution |-> <<>>, path |-> NoPath],
     detect |-> [pc |-> "idle", data |-> EmptyFrame, features |-> NoFeatures,
                 list |-> <<>>, todo |-> <<>>, all |-> <<>>, used |-> <<>>,
                 raised |-> "none", result |-> [kind |-> "none"]],
     saves |-> 0]

\* ----------------------------------------------------------- load_baseline
\* The body of load_baseline: what the in-memory baseline becomes, and the
\* exception the except clause swallows
load_baseline(path, fs, stats, distribution) ==
    LET keep(e) == [stats |-> stats, distribution |-> distribution, caught |-> e]
    IN  IF path = NoPath THEN keep("TypeError")
        ELSE IF fs[path].kind = "absent" THEN keep("FileNotFoundError")
        ELSE IF fs[path].kind = "garbage" THEN keep("JSONDecodeError")
        ELSE IF fs[path].kind = "array" THEN keep("AttributeError")
        ELSE LET data == fs[path].data
             IN  [stats |-> IF "stats" \in DOMAIN data THEN data.stats ELSE <<>>,
                  distribution |-> IF "distribution" \in DOMAIN data
                                   THEN data.distribution ELSE <<>>,
                  caught |-> "none"]

\* the constructor: load_baseline when a path is given and the file exists
construct(path, fs) ==
    IF path # NoPath /\ fs[path].kind # "absent"
    THEN load_baseline(path, fs, <<>>, <<>>) @@ [loaded |-> TRUE]
    ELSE [stats |-> <<>>, distribution |-> <<>>, caught |-> "none", loaded |-> FALSE]

\* ---------------------------------------------------------------- __init__
\* The state after DriftDetector(baseline_path, warning, critical) with the
\* files of a set on disk
Constructed(paths, on_disk, configs) ==
    /\ scipy_sum_check \in BOOLEAN
    /\ \E t \in configs :
          warning_threshold = t[1] /\ critical_threshold = t[2]
    /\ files \in [Paths -> on_disk]
    /\ baseline_path \in paths
    /\ LET made == construct(baseline_path, files)
       IN  /\ baseline_stats = made.stats
           /\ baseline_distribution = made.distribution
           /\ established = (made.loaded /\ made.caught = "none")
    /\ call = Idle
    /\ threads = NoThreads

\* ----------------------------------------------------------------- actions
LoadBaseline ==
    /\ call.op = "idle"
    /\ LET loaded == load_baseline(baseline_path, files, baseline_stats,
                                   baseline_distribution)
       IN  /\ baseline_stats' = loaded.stats
           /\ baseline_distribution' = loaded.distribution
           /\ call' = [Idle EXCEPT !.op = "load_baseline", !.caught = loaded.caught,
                                   !.before = Baseline]
           /\ established' = (established \/ loaded.caught = "none")
    /\ UNCHANGED <<baseline_path, warning_threshold, critical_threshold, files,
                   scipy_sum_check, threads, Service>>

\* mutant: the new statistics and samples are merged into the old ones
SaveBaseline_merge(frames) ==
    /\ call.op = "idle"
    /\ \E data \in frames, save_path \in Paths :
         \E distribution \in compute_distribution(data) :
            LET stats == compute_statistics(data)
            IN  /\ files' = [files EXCEPT ![save_path] =
                                Object(Document(data.rows, stats, distribution))]
                /\ baseline_stats' = stats @@ baseline_stats
                /\ baseline_distribution' = distribution @@ baseline_distribution
                /\ baseline_path' = save_path
                /\ call' = [Idle EXCEPT !.op = "save_baseline", !.data = data,
                                        !.path = save_path, !.before = Baseline]
    /\ established' = TRUE
    /\ UNCHANGED <<warning_threshold, critical_threshold, scipy_sum_check, threads, Service>>

SaveBaseline(frames) ==
    /\ call.op = "idle"
    /\ \E data \in frames, save_path \in Paths :
         \E distribution \in compute_distribution(data) :
            LET stats == compute_statistics(data)
            IN  /\ files' = [files EXCEPT ![save_path] =
                                Object(Document(data.rows, stats, distribution))]
                /\ baseline_stats' = stats
                /\ baseline_distribution' = distribution
                /\ baseline_path' = save_path
                /\ call' = [Idle EXCEPT !.op = "save_baseline", !.data = data,
                                        !.path = save_path, !.before = Baseline]
    /\ established' = TRUE
    /\ UNCHANGED <<warning_threshold, critical_threshold, scipy_sum_check, threads, Service>>

\* mutant: the samples are looked up with setdefault, which leaves an empty
\* sample in the baseline for every feature that had none
DetectDrift_setdefault(frames, lists) ==
    /\ call.op = "idle"
    /\ \E current_data \in frames, features \in lists :
         LET out == detect_drift(baseline_stats, baseline_distribution,
                                 warning_threshold, critical_threshold,
                                 current_data, features, scipy_sum_check)
             visited == IF no_baseline(baseline_stats) THEN {}
                        ELSE Range(Requested(baseline_stats, features))
                             \cap DOMAIN current_data.columns
         IN  /\ call' = [Idle EXCEPT !.op = "detect_drift", !.raised = out.raised,
                                     !.result = out.value, !.ran = out.ran,
                                     !.data = current_data,
                                     !.features = features, !.before = Baseline]
             /\ baseline_distribution' =
                    baseline_distribution
                    @@ [f \in visited |-> <<>>]
    /\ UNCHANGED <<baseline_path, warning_threshold, critical_threshold,
                   baseline_stats, files, scipy_sum_check,
                   established, threads, Service>>

DetectDrift(frames, lists) ==
    /\ call.op = "idle"
    /\ \E current_data \in frames, features \in lists :
         LET out == detect_drift(baseline_stats, baseline_distribution,
                                 warning_threshold, critical_threshold,
                                 current_data, features, scipy_sum_check)
         IN  call' = [Idle EXCEPT !.op = "detect_drift", !.raised = out.raised,
                                  !.result = out.value, !.ran = out.ran,
                                  !.data = current_data,
                                  !.features = features, !.before = Baseline]
    /\ UNCHANGED <<baseline_path, warning_threshold, critical_threshold,
                   baseline_stats, baseline_distribution, files, scipy_sum_check,
                   established, threads, Service>>

\* the caller passes the dict detect_drift returned to get_drift_report
GetDriftReport ==
    /\ call.op = "detect_drift"
    /\ call.raised = "none"
    /\ call' = [call EXCEPT !.op = "get_drift_report",
                            !.raised = get_drift_report(call.result)]
    /\ UNCHANGED <<baseline_path, warning_threshold, critical_threshold,
                   baseline_stats, baseline_distribution, files, scipy_sum_check,
                   established, threads, Service>>

\* the caller takes the outcome and is ready for its next call
Return ==
    /\ call.op # "idle"
    /\ call' = Idle
    /\ UNCHANGED <<baseline_path, warning_threshold, critical_threshold,
                   baseline_stats, baseline_distribution, files, scipy_sum_check,
                   established, threads, Service>>

\* the environment replaces or removes the file at a path
FileChanged(frames) ==
    /\ call.op = "idle"
    /\ \E p \in Paths, f \in FileStates(frames) :
          /\ files[p] # f
          /\ files' = [files EXCEPT ![p] = f]
    /\ UNCHANGED <<baseline_path, warning_threshold, critical_threshold,
                   baseline_stats, baseline_distribution, scipy_sum_check, call,
                   established, threads, Service>>

\* ---------------------------------------------------------- specifications
FeatureLists(n) ==
    {NoFeatures} \cup {SomeFeatures(l) : l \in UNION {[1..k -> Features] : k \in 0..n}}

\* the baseline life cycle
LifeFrames == Frames(LifeCells, {1}, Labels)
LifeLists == FeatureLists(0)

Init == Constructed(Paths \cup {NoPath}, FileStates(LifeFrames), {DefaultThresholds}) /\ ServiceAtRest

Next ==
    \/ LoadBaseline
    \/ SaveBaseline(LifeFrames)
    \/ DetectDrift(LifeFrames, LifeLists)
    \/ FileChanged(LifeFrames)
    \/ GetDriftReport
    \/ Return

Spec == Init /\ [][Next]_vars

\* detect_drift on every baseline a constructor can load
DetectFrames == Frames(MaxCells, Numbers, {1} \cup Labels)
DetectLists == FeatureLists(MaxList)

\* the baselines a constructor loads: none, a saved snapshot, or a snapshot
\* that lost its samples
DetectFiles ==
    {Absent} \cup {Object(doc) : doc \in Snapshots(DetectFrames)}
    \cup {Object(Without(doc, "distribution")) : doc \in Snapshots(DetectFrames)}

InitDetect == Constructed(Paths, DetectFiles, ThresholdConfigs) /\ ServiceAtRest

NextDetect ==
    \/ DetectDrift(DetectFrames, DetectLists)
    \/ Return

SpecDetect == InitDetect /\ [][NextDetect]_vars

\* save_baseline and load_baseline of one detector, alone with its file
\* the small frames, and one whose categorical column has more rows than the
\* sample cap
LongColumn == [dtype |-> "object", values |-> [i \in 1..(SampleCap + 1) |-> 101]]
LongFrame == [columns |-> [language |-> LongColumn], rows |-> SampleCap + 1]

SaveFrames == DetectFrames \cup {LongFrame}

InitSave == Constructed(Paths \cup {NoPath}, {Absent}, {DefaultThresholds}) /\ ServiceAtRest

NextSave ==
    \/ SaveBaseline(SaveFrames)
    \/ LoadBaseline
    \/ Return

SpecSave == InitSave /\ [][NextSave]_vars

\* a detector that starts without a baseline and is only saved to and asked:
\* 'established' then says that a save_baseline has returned
InitUse == Constructed({NoPath}, {Absent}, {DefaultThresholds}) /\ ServiceAtRest

NextUse ==
    \/ SaveBaseline(LifeFrames)
    \/ DetectDrift(LifeFrames, LifeLists)
    \/ Return

SpecUse == InitUse /\ [][NextUse]_vars

\* detect_drift under every pair of thresholds of a grid: the constructor
\* takes any two floats
ThresholdGrid ==
    LET levels == {Zero, Frac(1, 4), Frac(1, 2)}
    IN  {<<w, c>> : w \in levels, c \in levels}

InitConfig == Constructed(Paths, DetectFiles, ThresholdGrid) /\ ServiceAtRest

NextConfig ==
    \/ DetectDrift(DetectFrames, FeatureLists(0))
    \/ Return

SpecConfig == InitConfig /\ [][NextConfig]_vars

\* ------------------------------------------------------------- two threads
\* One thread calls save_baseline and another detect_drift on the same
\* detector.  A step is what a thread does between two accesses to the
\* attributes they share.
Sequential == <<baseline_path, warning_threshold, critical_threshold,
                scipy_sum_check, call, Service>>

\* save_baseline up to the end of the 'with open' block: the snapshot is
\* computed and written
SaveWrite(frames) ==
    /\ threads.save.pc = "idle"
    /\ threads.saves < MaxSaves
    /\ \E data \in frames, save_path \in Paths :
         \E distribution \in compute_distribution(data) :
            LET stats == compute_statistics(data)
            IN  /\ files' = [files EXCEPT ![save_path] =
                                Object(Document(data.rows, stats, distribution))]
                /\ threads' = [threads EXCEPT
                                  !.save = [pc |-> "stats", stats |-> stats,
                                            distribution |-> distribution,
                                            path |-> save_path],
                                  !.saves = @ + 1]
    /\ UNCHANGED <<Sequential, baseline_stats, baseline_distribution, established>>

\* self.baseline_stats = stats
SaveStats ==
    /\ threads.save.pc = "stats"
    /\ baseline_stats' = threads.save.stats
    /\ threads' = [threads EXCEPT !.save.pc = "distribution"]
    /\ UNCHANGED <<Sequential, baseline_distribution, files, established>>

\* self.baseline_distribution = distribution
SaveDistribution ==
    /\ threads.save.pc = "distribution"
    /\ baseline_distribution' = threads.save.distribution
    /\ threads' = [threads EXCEPT !.save.pc = "path"]
    /\ UNCHANGED <<Sequential, baseline_stats, files, established>>

\* self.baseline_path = path, and the method returns
SavePath ==
    /\ threads.save.pc = "path"
    /\ baseline_path' = threads.save.path
    /\ established' = TRUE
    /\ threads' = [threads EXCEPT !.save = NoThreads.save]
    /\ UNCHANGED <<warning_threshold, critical_threshold, scipy_sum_check, call,
                   baseline_stats, baseline_distribution, files, Service>>

\* detect_drift is entered: 'if not self.baseline_stats'
DetectEnter(frames, lists) ==
    /\ threads.detect.pc = "idle"
    /\ \E current_data \in frames, features \in lists :
         threads' = [threads EXCEPT
                        !.detect = IF no_baseline(baseline_stats)
                                   THEN [NoThreads.detect EXCEPT
                                            !.pc = "done", !.data = current_data,
                                            !.features = features,
                                            !.result = ErrorResult]
                                   ELSE [NoThreads.detect EXCEPT
                                            !.pc = "features", !.data = current_data,
                                            !.features = features]]
    /\ UNCHANGED <<Sequential, baseline_stats, baseline_distribution, files,
                   established>>

\* 'features = list(self.baseline_stats.keys())' when none were given
DetectList ==
    /\ threads.detect.pc = "features"
    /\ LET list == Requested(baseline_stats, threads.detect.features)
       IN  threads' = [threads EXCEPT !.detect.pc = "loop", !.detect.list = list,
                                      !.detect.todo = list]
    /\ UNCHANGED <<Sequential, baseline_stats, baseline_distribution, files,
                   established>>

\* one turn of the loop; _test_feature_drift reads self.baseline_distribution
DetectFeature ==
    /\ threads.detect.pc = "loop"
    /\ threads.detect.todo # <<>>
    /\ LET feature == Head(threads.detect.todo)
           data == threads.detect.data
           turn == Visit(data, feature, baseline_distribution, scipy_sum_check)
           sample == IF feature \in DOMAIN baseline_distribution
                     THEN baseline_distribution[feature] ELSE <<>>
           read == IF turn = <<>> THEN <<>>
                   ELSE <<[feature |-> feature, sample |-> sample]>>
       IN  threads' = [threads EXCEPT
                          !.detect.todo = Tail(@),
                          !.detect.all = @ \o turn,
                          !.detect.used = @ \o read]
    /\ UNCHANGED <<Sequential, baseline_stats, baseline_distribution, files,
                   established>>

\* the loop is over: the exception of a failed turn leaves detect_drift, or
\* the result is built and returned
DetectFinish ==
    /\ threads.detect.pc = "loop"
    /\ threads.detect.todo = <<>>
    /\ LET out == detect_outcome(threads.detect.all, warning_threshold,
                                 critical_threshold, threads.detect.data)
       IN  threads' = [threads EXCEPT !.detect.pc = "done",
                                      !.detect.raised = out.raised,
                                      !.detect.result = out.value]
    /\ UNCHANGED <<Sequential, baseline_stats, baseline_distribution, files,
                   established>>

\* the caller of detect_drift takes the outcome
DetectReturn ==
    /\ threads.detect.pc = "done"
    /\ threads' = [threads EXCEPT !.detect = NoThreads.detect]
    /\ UNCHANGED <<Sequential, baseline_stats, baseline_distribution, files,
                   established>>

RaceFrames == LifeFrames
RaceLists == FeatureLists(0)

InitRace == Constructed(Paths, {Absent}, {DefaultThresholds}) /\ ServiceAtRest

NextRace ==
    \/ SaveWrite(RaceFrames)
    \/ SaveStats
    \/ SaveDistribution
    \/ SavePath
    \/ DetectEnter(RaceFrames, RaceLists)
    \/ DetectList
    \/ DetectFeature
    \/ DetectFinish
    \/ DetectReturn

SpecRace == InitRace /\ [][NextRace]_vars

\* --------------------------------------------------------- rate limiting
\* The detector is not part of the middleware's runs
Detector == <<baseline_path, warning_threshold, critical_threshold,
              baseline_stats, baseline_distribution, files, scipy_sum_check,
              call, established, threads>>

\* time.time() goes on; it never goes back
Tick ==
    /\ traffic.clock < MaxTime
    /\ traffic' = [traffic EXCEPT !.clock = @ + 1]
    /\ UNCHANGED <<Detector, limiter, Metrics, judge>>

\* mutant: the timestamp is appended before the limit is checked
Dispatch_counts_rejected(host) ==
    /\ traffic.requests < MaxRequests
    /\ LET key == client_ip(host)
           now == traffic.clock
           before == limiter.clients[key]
           kept == Append(cleaned(before, now, limiter.period), now)
           event == [NoEvent EXCEPT !.host = host, !.now = now, !.before = before]
       IN  IF limit_exceeded(kept, limiter.calls + 1)
           THEN /\ limiter' = [limiter EXCEPT !.clients[key] = kept]
                /\ traffic' = [traffic EXCEPT
                                  !.requests = @ + 1,
                                  !.rejections[host] = @ + 1,
                                  !.last = [event EXCEPT !.kind = "rejected",
                                                         !.status = 429,
                                                         !.retry_after = limiter.period]]
           ELSE /\ limiter' = [limiter EXCEPT !.clients[key] = kept]
                /\ traffic' = [traffic EXCEPT
                                  !.requests = @ + 1,
                                  !.pending = @ (+) SetToBag({[host |-> host,
                                                                now |-> now]}),
                                  !.admitted[host] = Append(@, now),
                                  !.last = [event EXCEPT !.kind = "admitted",
                                                         !.passed = TRUE]]
    /\ UNCHANGED <<Detector, Metrics, judge>>

\* dispatch up to 'await call_next(request)', or to the 429 it returns
Dispatch(host) ==
    /\ traffic.requests < MaxRequests
    /\ LET key == client_ip(host)
           now == traffic.clock
           before == limiter.clients[key]
           kept == cleaned(before, now, limiter.period)
           event == [NoEvent EXCEPT !.host = host, !.now = now, !.before = before]
       IN  IF limit_exceeded(kept, limiter.calls)
           THEN /\ limiter' = [limiter EXCEPT !.clients[key] = kept]
                /\ traffic' = [traffic EXCEPT
                                  !.requests = @ + 1,
                                  !.rejections[host] = @ + 1,
                                  !.last = [event EXCEPT !.kind = "rejected",
                                                         !.status = 429,
                                                         !.retry_after = limiter.period]]
           ELSE /\ limiter' = [limiter EXCEPT !.clients[key] = Append(kept, now)]
                /\ traffic' = [traffic EXCEPT
                                  !.requests = @ + 1,
                                  !.pending = @ (+) SetToBag({[host |-> host,
                                                                now |-> now]}),
                                  !.admitted[host] = Append(@, now),
                                  !.last = [event EXCEPT !.kind = "admitted",
                                                         !.passed = TRUE]]
    /\ UNCHANGED <<Detector, Metrics, judge>>

\* call_next returned: the rate limit headers are added to the response
Respond ==
    /\ \E r \in BagToSet(traffic.pending) :
          LET key == client_ip(r.host)
              remaining == limiter.calls - Len(limiter.clients[key])
          IN  traffic' = [traffic EXCEPT
                             !.pending = @ (-) SetToBag({r}),
                             !.last = [NoEvent EXCEPT
                                          !.kind = "responded", !.host = r.host,
                                          !.now = r.now, !.status = 200,
                                          !.before = limiter.clients[key],
                                          !.passed = TRUE,
                                          !.limit = limiter.calls,
                                          !.remaining = remaining,
                                          !.reset = r.now + limiter.period]]
    /\ UNCHANGED <<Detector, limiter, Metrics, judge>>

\* call_next raised: dispatch is left without a response
Abort ==
    /\ \E r \in BagToSet(traffic.pending) :
          traffic' = [traffic EXCEPT
                         !.pending = @ (-) SetToBag({r}),
                         !.last = [NoEvent EXCEPT !.kind = "raised", !.host = r.host,
                                                  !.now = r.now, !.passed = TRUE]]
    /\ UNCHANGED <<Detector, limiter, Metrics, judge>>

DetectorAtRest ==
    /\ Constructed({NoPath}, {Absent}, {DefaultThresholds})
    /\ scipy_sum_check = FALSE

InitLimit ==
    /\ DetectorAtRest
    /\ \E calls \in 0..MaxCalls, period \in 1..MaxPeriod :
          limiter = NewLimiter(calls, period)
    /\ traffic = NoTraffic
    /\ metrics_collector = NewCollector
    /\ api = NoRequests
    /\ judge = NoEvaluation

NextLimit ==
    \/ Tick
    \/ \E host \in Hosts : Dispatch(host)
    \/ Respond
    \/ Abort

SpecLimit == InitLimit /\ [][NextLimit]_vars

\* ------------------------------------------------------- collecting metrics
\* record_success with the ordinal of the call as its latency
RecordSuccess ==
    /\ api.successes < KeepLast + MaxOver
    /\ api.successes - api.predictions < MaxLead
    /\ metrics_collector' = record_success(metrics_collector, api.successes + 1)
    /\ api' = [api EXCEPT !.successes = @ + 1]
    /\ UNCHANGED <<Detector, Limiter, judge>>

\* record_prediction with the sentiments in turn and the ordinal of the call
\* as its confidence
RecordPrediction ==
    /\ api.predictions < KeepLast + MaxOver
    /\ api.predictions - api.successes < MaxLead
    /\ metrics_collector' =
          record_prediction(metrics_collector,
                            SentimentOrder[(api.predictions % 3) + 1],
                            api.predictions + 1)
    /\ api' = [api EXCEPT !.predictions = @ + 1]
    /\ UNCHANGED <<Detector, Limiter, judge>>

InitCap ==
    /\ DetectorAtRest
    /\ ServiceAtRest

NextCap ==
    \/ RecordSuccess
    \/ RecordPrediction

SpecCap == InitCap /\ [][NextCap]_vars

\* POST /api/v1/predict, the prediction succeeds
PredictSucceeds ==
    /\ api.requests < MaxApiRequests
    /\ \E latency \in {1, 2}, sentiment \in Sentiments :
          metrics_collector' =
              record_prediction(
                  record_success(record_request(metrics_collector), latency),
                  sentiment, 1)
    /\ api' = [api EXCEPT !.requests = @ + 1, !.successes = @ + 1,
                          !.predictions = @ + 1]
    /\ UNCHANGED <<Detector, Limiter, judge>>

\* POST /api/v1/predict, the predictor raises: the except clause records
\* the failure and raises HTTPException, which http_exception_handler
\* answers
PredictRaises ==
    /\ api.requests < MaxApiRequests
    /\ metrics_collector' =
          record_failure(
              record_failure(record_request(metrics_collector), "RuntimeError"),
              "HTTP_500")
    /\ api' = [api EXCEPT !.requests = @ + 1, !.failed = @ + 1]
    /\ UNCHANGED <<Detector, Limiter, judge>>

\* a request body that does not validate: validation_exception_handler
\* answers before the endpoint runs
ValidationFails ==
    /\ api.requests < MaxApiRequests
    /\ metrics_collector' = record_failure(metrics_collector, "ValidationError")
    /\ api' = [api EXCEPT !.requests = @ + 1, !.failed = @ + 1]
    /\ UNCHANGED <<Detector, Limiter, judge>>

\* GET /health raises HTTPException(503): http_exception_handler answers
HealthFails ==
    /\ api.requests < MaxApiRequests
    /\ metrics_collector' = record_failure(metrics_collector, "HTTP_503")
    /\ api' = [api EXCEPT !.requests = @ + 1, !.failed = @ + 1]
    /\ UNCHANGED <<Detector, Limiter, judge>>

InitMetrics ==
    /\ DetectorAtRest
    /\ ServiceAtRest

NextMetrics ==
    \/ PredictSucceeds
    \/ PredictRaises
    \/ ValidationFails
    \/ HealthFails

SpecMetrics == InitMetrics /\ [][NextMetrics]_vars

\* ------------------------------------------------------------- the LLM judge
EvaluateSinglePrediction ==
    /\ \E retry_attempts \in 0..MaxRetries, replies \in [1..MaxRetries -> Replies] :
          LET out == evaluate_single_prediction(retry_attempts, replies)
          IN  judge' = [op |-> "evaluate_single_prediction",
                        retry_attempts |-> retry_attempts, replies |-> replies,
                        returned |-> out.returned, api_calls |-> out.api_calls]
    /\ UNCHANGED <<Detector, Limiter, Metrics>>

InitJudge ==
    /\ DetectorAtRest
    /\ ServiceAtRest

NextJudge == EvaluateSinglePrediction

SpecJudge == InitJudge /\ [][NextJudge]_vars

\* ================================================================== claims
Detected == call.op = "detect_drift" /\ call.raised = "none" /\ call.result.kind = "result"

\* the float a lies in [0, 1]
InUnit(a) == a[2] > 0 /\ 0 <= a[1] /\ a[1] <= a[2]

\* a >= b for finite fractions, by cross multiplication
AtLeast(a, b) == a[1] * b[2] >= b[1] * a[2]

\* C1: the severity of every result of detect_drift is decided by
\* overall_score alone: critical from critical_threshold on, else warning
\* from warning_threshold on, else normal, both bounds included.
C1_SeverityFromScore ==
    Detected =>
        LET score == call.result.overall_drift_score
        IN  call.result.severity =
                IF AtLeast(score, critical_threshold) THEN "critical"
                ELSE IF AtLeast(score, warning_threshold) THEN "warning"
                ELSE "normal"

\* a score exactly at the warning threshold, below the critical one
C1_Witness ==
    /\ Detected
    /\ call.result.overall_drift_score = warning_threshold
    /\ RLess(warning_threshold, critical_threshold)
    /\ call.result.severity = "warning"

\* C2: in every result of detect_drift, drift_detected is true exactly when
\* the severity is warning or critical.
C2_DetectedIffNotNormal ==
    Detected =>
        (call.result.drift_detected <=> call.result.severity \in {"warning", "critical"})

C2_Witness ==
    /\ Detected
    /\ call.result.severity = "warning"
    /\ call.result.drift_detected
    /\ call.ran # <<>>

\* C3: detect_drift on a detector whose baseline no load_baseline and no
\* save_baseline has set returns the error result, with no severity, score
\* or feature entry, and calls no statistical test.
C3_NoBaselineIsAnError ==
    (call.op = "detect_drift" /\ ~established) =>
        /\ call.raised = "none"
        /\ call.result = ErrorResult
        /\ call.ran = <<>>

\* a call without a baseline, with data that has a column to test, after a
\* load_baseline that failed or never ran
C3_Witness ==
    /\ call.op = "detect_drift"
    /\ ~established
    /\ DOMAIN call.data.columns # {}
    /\ call.data.rows > 0
    /\ call.result = ErrorResult

RECURSIVE RSumOver(_, _)
RSumOver(f, S) ==
    IF S = {} THEN Zero
    ELSE LET x == CHOOSE y \in S : TRUE IN RAdd(f[x].drift_score, RSumOver(f, S \ {x}))

\* C4: overall_score is the mean of the drift_score of the features that
\* were tested; a feature with test 'none' (no baseline sample) counts
\* neither in the sum nor in the number of features.
C4_MeanOfTestedFeatures ==
    Detected =>
        LET tested == {f \in DOMAIN call.result.features :
                          call.result.features[f].test # "none"}
        IN  call.result.overall_drift_score =
                IF tested = {} THEN Zero
                ELSE RDiv(RSumOver(call.result.features, tested),
                          Frac(Cardinality(tested), 1))

Without1(list, f) == SelectSeq(list, LAMBDA g : g # f)

\* C5: a requested feature that is not a column of the current data gets
\* no entry, and the call ends as the same call without that feature in
\* the requested list ends.
C5_AbsentFeatureIsSkipped ==
    (call.op = "detect_drift" /\ DOMAIN call.before.stats # {}) =>
        LET list == Requested(call.before.stats, call.features)
        IN  \A f \in Range(list) \ DOMAIN call.data.columns :
                LET again == detect_drift(call.before.stats, call.before.distribution,
                                          warning_threshold, critical_threshold,
                                          call.data, SomeFeatures(Without1(list, f)),
                                          scipy_sum_check)
                IN  /\ call.raised = "none" => f \notin DOMAIN call.result.features
                    /\ again.raised = call.raised
                    /\ again.value = call.result

\* a baseline feature missing from the current data, next to a feature
\* with a positive score
C5_Witness ==
    /\ Detected
    /\ \E f \in DOMAIN call.before.stats :
          /\ f \in Range(Requested(call.before.stats, call.features))
          /\ f \notin DOMAIN call.data.columns
    /\ \E g \in DOMAIN call.result.features :
          RLess(Zero, call.result.features[g].drift_score)

C7_FailedTestDoesNotAbort ==
    (call.op = "detect_drift" /\ DOMAIN call.before.stats # {}) =>
        /\ call.raised = "none"
        /\ \A f \in Range(Requested(call.before.stats, call.features)) :
              f \in DOMAIN call.data.columns => f \in DOMAIN call.result.features

\* C8: the in-memory statistics and the in-memory samples always have the
\* same feature names.
C8_SameFeatureNames == DOMAIN baseline_stats = DOMAIN baseline_distribution

\* the document misses a required field or is not a JSON object
Corrupt(file) ==
    \/ file.kind \in {"garbage", "array"}
    \/ file.kind = "object" /\ ~({"stats", "distribution"} \subseteq DOMAIN file.data)

\* C9: load_baseline of a corrupt document raises to its caller and leaves
\* statistics and samples as they were.
C9_CorruptLoadFailsWhole ==
    (call.op = "load_baseline" /\ baseline_path # NoPath
        /\ Corrupt(files[baseline_path])) =>
        /\ call.raised # "none"
        /\ baseline_stats = call.before.stats
        /\ baseline_distribution = call.before.distribution

\* C10: load_baseline of a path that does not exist raises an error its
\* caller can tell apart.
C10_MissingFileIsReported ==
    (call.op = "load_baseline" /\ baseline_path # NoPath
        /\ files[baseline_path].kind = "absent") =>
        call.raised = "FileNotFoundError"

\* C11: save_baseline replaces the baseline: statistics and samples have
\* exactly the features of the saved data, the file at the path holds the
\* dump of that snapshot, and baseline_path is the path.
C11_SaveReplaces ==
    call.op = "save_baseline" =>
        /\ DOMAIN baseline_stats = DOMAIN call.data.columns
        /\ DOMAIN baseline_distribution = DOMAIN call.data.columns
        /\ baseline_stats = compute_statistics(call.data)
        /\ baseline_distribution \in compute_distribution(call.data)
        /\ files[call.path] =
              Object(Document(call.data.rows, baseline_stats, baseline_distribution))
        /\ baseline_path = call.path

\* a save over a baseline that had a feature the saved data lacks
C11_Witness ==
    /\ call.op = "save_baseline"
    /\ DOMAIN call.before.stats \ DOMAIN call.data.columns # {}
    /\ DOMAIN call.before.distribution \ DOMAIN call.data.columns # {}
    /\ DOMAIN call.data.columns # {}
    /\ call.data.rows > 0
    /\ baseline_path = call.path

\* C12: a load_baseline that follows save_baseline on the same path yields
\* the statistics and samples save_baseline held in memory.
C12_RoundTrip ==
    (call.op = "load_baseline" /\ call.caught = "none") =>
        /\ baseline_stats = call.before.stats
        /\ baseline_distribution = call.before.distribution

\* C13: the test of a feature follows the type recorded in the baseline
\* statistics: Kolmogorov-Smirnov for numeric, Chi-square for categorical.
C13_TestFollowsBaselineType ==
    Detected =>
        \A f \in DOMAIN call.result.features \cap DOMAIN call.before.stats :
            call.result.features[f].test # "none" =>
                call.result.features[f].test =
                    IF call.before.stats[f].type = "numeric"
                    THEN "kolmogorov_smirnov" ELSE "chi_square"

\* C14: a detect_drift that runs while another thread saves a baseline uses
\* one single baseline: some baseline has the feature list it went through
\* (when the caller gave none) and, for every feature it tested, the sample
\* it read
Get(distribution, feature) ==
    IF feature \in DOMAIN distribution THEN distribution[feature] ELSE <<>>

Baselines(frames) ==
    {[stats |-> <<>>, distribution |-> <<>>]}
    \cup UNION {{[stats |-> compute_statistics(data), distribution |-> d] :
                    d \in compute_distribution(data)} : data \in frames}

C14_OneBaselinePerCall ==
    (threads.detect.pc = "done" /\ threads.detect.result.kind = "result") =>
        \E b \in Baselines(RaceFrames) :
            /\ ~threads.detect.features.given =>
                   threads.detect.list = KeysInOrder(b.stats)
            /\ \A i \in DOMAIN threads.detect.used :
                   threads.detect.used[i].sample =
                       Get(b.distribution, threads.detect.used[i].feature)

\* C15: after save_baseline the stored sample of every feature has at most
\* SampleCap values: all the values of a column that has at most SampleCap,
\* and SampleCap of the column's values otherwise
C15_SamplesAreCapped ==
    call.op = "save_baseline" =>
        \A f \in DOMAIN baseline_distribution :
            LET values == call.data.columns[f].values
                sample == baseline_distribution[f]
            IN  /\ Len(sample) <= SampleCap
                /\ Len(values) <= SampleCap => sample = values
                /\ Len(values) > SampleCap =>
                       Len(sample) = SampleCap /\ Range(sample) \subseteq Range(values)

\* C16: every constructed detector has warning_threshold < critical_threshold
C16_ThresholdsOrdered == RLess(warning_threshold, critical_threshold)

\* C17: with a baseline and a current dataset that has no column, and
\* warning_threshold > 0, detect_drift returns no per-feature result, an
\* overall score of 0, severity normal and drift_detected false
C17_NoFeaturesIsNormal ==
    (/\ call.op = "detect_drift"
     /\ ~no_baseline(call.before.stats)
     /\ DOMAIN call.data.columns = {}
     /\ RLess(Zero, warning_threshold)) =>
        /\ Detected
        /\ DOMAIN call.result.features = {}
        /\ call.result.overall_drift_score = Zero
        /\ call.result.severity = "normal"
        /\ ~call.result.drift_detected

\* the current data is, column by column, the stored baseline sample
SameAsBaseline ==
    /\ call.op = "detect_drift"
    /\ ~no_baseline(call.before.stats)
    /\ DOMAIN call.data.columns = DOMAIN call.before.distribution
    /\ \A f \in DOMAIN call.data.columns :
          call.data.columns[f].values = call.before.distribution[f]

ZeroScores ==
    /\ Detected
    /\ \A f \in DOMAIN call.result.features :
          call.result.features[f].drift_score = Zero
    /\ call.result.overall_drift_score = Zero

Unsampled ==
    {f \in Range(Requested(call.before.stats, call.features))
              \cap DOMAIN call.data.columns :
        Get(call.before.distribution, f) = <<>>}

C19_NoSampleNoTest ==
    (call.op = "detect_drift" /\ ~no_baseline(call.before.stats)) =>
        \A f \in Unsampled :
            /\ f \notin Range(call.ran)
            /\ Detected =>
                  /\ f \in DOMAIN call.result.features
                  /\ call.result.features[f].test = "none"
                  /\ call.result.features[f].drift_score = Zero
                  /\ call.result.features[f].statistic = Zero
                  /\ call.result.features[f].p_value = One

\* a call that found no sample for one feature and tested another
C19_Witness ==
    /\ Detected
    /\ Unsampled # {}
    /\ call.ran # <<>>
    /\ \E f \in Unsampled : Len(call.data.columns[f].values) > 0

\* C20: detect_drift leaves the baseline statistics and samples, the
\* baseline path, both thresholds and the files as they were
C20_DetectIsReadOnly ==
    [][(call.op = "idle" /\ call'.op = "detect_drift") =>
          UNCHANGED <<baseline_stats, baseline_distribution, baseline_path,
                      warning_threshold, critical_threshold, files>>]_vars

\* a detect_drift that tested a feature, on a baseline that is still the
\* one it found
C20_Witness ==
    /\ Detected
    /\ \E f \in DOMAIN call.result.features : call.result.features[f].test # "none"
    /\ call.before = Baseline
    /\ files[baseline_path].kind = "object"

\* C22: get_drift_report accepts every dict detect_drift returns
C22_EveryResultIsReportable ==
    call.op = "get_drift_report" => call.raised = "none"

\* C23: once a save_baseline has returned, detect_drift does not return the
\* 'baseline not loaded' error
C23_NoErrorAfterSave ==
    (call.op = "detect_drift" /\ established) => call.result.kind # "error"

\* C24: with warning_threshold >= critical_threshold no result has severity
\* warning: it is critical when the score reaches critical_threshold and
\* normal otherwise
C24_NoWarningWhenInverted ==
    (Detected /\ RGeq(warning_threshold, critical_threshold)) =>
        /\ call.result.severity # "warning"
        /\ call.result.severity =
              IF RGeq(call.result.overall_drift_score, critical_threshold)
              THEN "critical" ELSE "normal"

\* a score above 0 between the two thresholds of an inverted pair
C24_Witness ==
    /\ Detected
    /\ RLess(critical_threshold, warning_threshold)
    /\ RGeq(call.result.overall_drift_score, critical_threshold)
    /\ RLess(call.result.overall_drift_score, warning_threshold)
    /\ RLess(Zero, call.result.overall_drift_score)
    /\ call.result.severity = "critical"

\* the admissions of a host among the first n that are younger than the
\* period at time now
InWindow(host, n, now) ==
    {j \in 1..n : now - traffic.admitted[host][j] < limiter.period}

Dispatched == traffic.last.kind \in {"admitted", "rejected"}

C25_StoredAndRemainingInRange ==
    /\ \A k \in Keys : Len(limiter.clients[k]) <= limiter.calls
    /\ traffic.last.kind = "responded" =>
          /\ 0 <= traffic.last.remaining
          /\ traffic.last.remaining <= limiter.calls - 1

\* a response written while another request of the same client is inside
\* call_next, with nothing remaining
C25_Witness ==
    /\ traffic.last.kind = "responded"
    /\ traffic.last.remaining = 0
    /\ limiter.calls > 1
    /\ \E r \in BagToSet(traffic.pending) : r.host = traffic.last.host

\* C26: a rejected request stores no timestamp, and a request that comes
\* when period has passed since the oldest stored timestamp is admitted
C26_RejectionsDoNotExtend ==
    LET e == traffic.last
    IN  /\ e.kind = "rejected" =>
              limiter.clients[client_ip(e.host)] =
                  cleaned(e.before, e.now, limiter.period)
        /\ (/\ Dispatched
             /\ limiter.calls >= 1
             /\ e.before # <<>>
             /\ \E i \in DOMAIN e.before :
                   /\ \A j \in DOMAIN e.before : e.before[i] <= e.before[j]
                   /\ e.now - e.before[i] >= limiter.period) =>
              e.kind = "admitted"

\* a client at the limit, rejected in between, is admitted exactly period
\* after its oldest stored request
C26_Witness ==
    LET e == traffic.last
    IN  /\ e.kind = "admitted"
        /\ limiter.calls >= 1
        /\ Len(e.before) = limiter.calls
        /\ e.now - e.before[1] = limiter.period
        /\ traffic.rejections[e.host] > 0

\* C27: the timestamps stored for a client are admission times of that
\* client, and a request is rejected exactly when its own client has calls
\* admissions younger than the period
C27_ClientsAreIsolated ==
    /\ \A h \in Hosts :
          LET own == traffic.admitted[h]
              stored == limiter.clients[client_ip(h)]
          IN  /\ Len(stored) <= Len(own)
              /\ stored = SubSeq(own, Len(own) - Len(stored) + 1, Len(own))
    /\ Dispatched =>
          LET e == traffic.last
              own == traffic.admitted[e.host]
              earlier == IF e.kind = "admitted" THEN Len(own) - 1 ELSE Len(own)
          IN  (e.kind = "rejected") <=>
                  (Cardinality(InWindow(e.host, earlier, e.now)) >= limiter.calls)

\* a client is admitted while another one is at its limit and has been
\* rejected
C27_Witness ==
    /\ traffic.last.kind = "admitted"
    /\ \E g \in Hosts \ {traffic.last.host} :
          /\ traffic.rejections[g] > 0
          /\ Len(limiter.clients[client_ip(g)]) = limiter.calls
          /\ limiter.calls >= 1

\* the last KeepLast of the values 1..n, in order
LastOf(n) ==
    LET kept == IF n > KeepLast THEN KeepLast ELSE n
    IN  [i \in 1..kept |-> n - kept + i]

\* C28: request_latencies and confidence_scores hold the most recent
\* min(n, 1000) recorded values in recording order, and
\* successful_requests and predictions_by_sentiment count every call
C28_LastThousandKept ==
    /\ Len(metrics_collector.request_latencies) <= KeepLast
    /\ Len(metrics_collector.confidence_scores) <= KeepLast
    /\ metrics_collector.request_latencies = LastOf(api.successes)
    /\ metrics_collector.confidence_scores = LastOf(api.predictions)
    /\ metrics_collector.successful_requests = api.successes
    /\ \A k \in 1..3 :
          metrics_collector.predictions_by_sentiment[SentimentOrder[k]] =
              Cardinality({j \in 1..api.predictions : ((j - 1) % 3) + 1 = k})

\* more than KeepLast values were recorded in both lists
C28_Witness ==
    /\ api.successes > KeepLast
    /\ api.predictions > KeepLast
    /\ Len(metrics_collector.request_latencies) = KeepLast
    /\ Len(metrics_collector.confidence_scores) = KeepLast

\* C29: successful_requests + failed_requests <= total_requests, the
\* error_rate is in [0, 1], and every failed request is counted once
C29_FailuresCountedOnce ==
    /\ metrics_collector.successful_requests + metrics_collector.failed_requests
          <= metrics_collector.total_requests
    /\ InUnit(error_rate(metrics_collector))
    /\ metrics_collector.failed_requests = api.failed

\* C30: evaluate_single_prediction returns a dict after at most
\* retry_attempts API calls: the first complete reply, with no call after
\* it, or the error dict after retry_attempts failed attempts
C30_AlwaysReturnsDict ==
    judge.op = "evaluate_single_prediction" =>
        LET complete == {i \in 1..judge.retry_attempts : judge.replies[i] = "complete"}
        IN  /\ judge.returned \in {"result", "error_dict"}
            /\ judge.api_calls <= judge.retry_attempts
            /\ complete # {} =>
                  /\ judge.returned = "result"
                  /\ \A i \in complete : judge.api_calls <= i
            /\ complete = {} =>
                  /\ judge.returned = "error_dict"
                  /\ judge.api_calls = judge.retry_attempts

====
